---- MODULE Spec2Model ----
(***************************************************************************)
(* Model of the Jira -> OpenProject migration engine of src/index.js:      *)
(* getErrors, getOpenProjectUserId, convertAtlassianDocumentToText and the *)
(* per-issue loop of migrateIssues.  The clients required from             *)
(* ./jira-client and ./openproject-client are collaborators whose code is  *)
(* not part of src/: every call to them either succeeds with the effect    *)
(* the specification gives it or fails with some error value.              *)
(***************************************************************************)
EXTENDS Integers, Sequences, FiniteSets, TLC

\* ------------------------------------------------------------------ bounds
\* Longest issue list returned by the source reader.
MaxIssues == 2
\* Longest list of sub-errors embedded in one MultipleErrors envelope.
MaxSubErrors == 2

\* ------------------------------------------------------------ small helpers
Range(s) == {s[i] : i \in 1..Len(s)}

SeqsUpTo(S, n) == UNION {[1..k -> S] : k \in 0..n}

RECURSIVE Concat(_)
\* Array.prototype.push(...list) over a list of lists: concatenation in order.
Concat(ss) == IF ss = <<>> THEN <<>> ELSE Head(ss) \o Concat(Tail(ss))

\* ------------------------------------------------- getErrors (index.js 62-75)
MultipleErrors == "urn:openproject-org:api:v3:errors:MultipleErrors"
PropertyConstraintViolation == "urn:openproject-org:api:v3:errors:PropertyConstraintViolation"
OtherError == "urn:openproject-org:api:v3:errors:InternalServerError"

\* The value of a missing property.
Undefined == "undefined"

\* e.response.data of a failure.  type is _type; embedded tells whether the
\* _embedded part is "missing", "empty" (an object without details and
\* without errors) or "full"; details is _embedded.details.attribute
\* (Undefined when details or its attribute is missing); errors is
\* _embedded.errors.
Data(type, id, embedded, details, errors) ==
    [type |-> type, errorIdentifier |-> id, embedded |-> embedded,
     details |-> details, errors |-> errors]

\* A thrown value with no response (a network failure, a TypeError).
NoResponse == Data("none", Undefined, "missing", Undefined, <<>>)

SingleError(id, attribute) == Data("Error", id, "full", attribute, <<>>)
CompositeError(subs) == Data("Error", MultipleErrors, "full", Undefined, subs)

\* Well-formed single errors, and responses that are no error envelope.
SingleErrors ==
    {SingleError(PropertyConstraintViolation, a) : a \in {"assignee", "user"}}
    \cup {SingleError(OtherError, Undefined)}
NotEnvelopes == {NoResponse, Data("WorkPackage", Undefined, "full", Undefined, <<>>)}

\* Composite envelopes, nested one and two levels deep.
Composites1 == {CompositeError(s) : s \in SeqsUpTo(SingleErrors, MaxSubErrors)}
Composites2 ==
    {CompositeError(s) : s \in SeqsUpTo(SingleErrors \cup Composites1, MaxSubErrors)}
WellFormed == NotEnvelopes \cup SingleErrors \cup Composites1 \cup Composites2

RECURSIVE getErrorsThrows(_)
\* The reads of index.js 66 and 70 that raise a TypeError: _embedded of an
\* envelope that has none, and the iteration of a missing errors list.
getErrorsThrows(d) ==
    /\ d.type = "Error"
    /\ \/ d.embedded = "missing"
       \/ /\ d.errorIdentifier = MultipleErrors
          /\ \/ d.embedded = "empty"
             \/ \E i \in 1..Len(d.errors) : getErrorsThrows(d.errors[i])

RECURSIVE getErrorsReversed(_)
\* A classifier that puts each sub-error's entries in front of the list.
getErrorsReversed(d) ==
    IF d.type = "Error"
    THEN IF d.errorIdentifier = MultipleErrors
         THEN Concat([i \in 1..Len(d.errors) |->
                        getErrorsReversed(d.errors[Len(d.errors) + 1 - i])])
         ELSE << [error |-> d.errorIdentifier, details |-> d.details] >>
    ELSE <<>>

RECURSIVE getErrors(_)
\* The list getErrors returns when it returns.
getErrors(d) ==
    IF d.type = "Error"
    THEN IF d.errorIdentifier = MultipleErrors
         THEN Concat([i \in 1..Len(d.errors) |-> getErrors(d.errors[i])])
         ELSE << [error |-> d.errorIdentifier, details |-> d.details] >>
    ELSE <<>>

\* errors.map(...) of index.js 241-246 and 337-342: the attribute of a
\* PropertyConstraintViolation entry, null for any other entry.
Null == "null"
AttributeOf(error) ==
    IF error.error = PropertyConstraintViolation THEN error.details ELSE Null
FailingAttributes(d) ==
    LET errs == getErrors(d) IN {AttributeOf(errs[i]) : i \in 1..Len(errs)}

\* ------------------------- convertAtlassianDocumentToText (index.js 386-402)
\* Text is a sequence of characters.
Whitespace == {" ", "\n"}

RECURSIVE TrimStart(_)
TrimStart(t) ==
    IF t # <<>> /\ Head(t) \in Whitespace THEN TrimStart(Tail(t)) ELSE t

RECURSIVE TrimEnd(_)
TrimEnd(t) ==
    IF t # <<>> /\ t[Len(t)] \in Whitespace
    THEN TrimEnd(SubSeq(t, 1, Len(t) - 1)) ELSE t

\* String.prototype.trim
Trim(t) == TrimEnd(TrimStart(t))

RECURSIVE Join(_, _)
\* Array.prototype.join of a list of texts with a separator text.
Join(ts, sep) ==
    IF ts = <<>> THEN <<>>
    ELSE IF Len(ts) = 1 THEN ts[1]
    ELSE ts[1] \o sep \o Join(Tail(ts), sep)

\* A document is null, a plain string, or an object whose content (when it
\* has one) is a list of blocks; a block has a list of text runs or none.
NullDocument == [kind |-> "null", string |-> <<>>, content |-> <<>>]
StringDocument(t) == [kind |-> "string", string |-> t, content |-> <<>>]
ContentDocument(blocks) == [kind |-> "content", string |-> <<>>, content |-> blocks]
Block(runs) == [hasContent |-> TRUE, content |-> runs]
BlockWithoutContent == [hasContent |-> FALSE, content |-> <<>>]

\* block.content?.map((c) => c.text).join("") || ""
BlockText(block) ==
    IF block.hasContent
    THEN Join([i \in 1..Len(block.content) |-> block.content[i].text], <<>>)
    ELSE <<>>

convertAtlassianDocumentToText(document) ==
    IF document.kind = "null" \/ (document.kind = "string" /\ document.string = <<>>)
    THEN <<>>
    ELSE IF document.kind = "string" THEN document.string
    ELSE IF document.kind = "content"
    THEN Trim(Join([i \in 1..Len(document.content) |-> BlockText(document.content[i])],
                   <<"\n">>))
    ELSE <<>>

\* new Date(created).toLocaleString(): the rendering has a resolution of one
\* second, the milliseconds of the timestamp are dropped.
toLocaleString(created) == created.second

\* The template literal of index.js 307-311.
formattedComment(comment) ==
    comment.author \o <<" wrote on ">> \o toLocaleString(comment.created)
        \o <<":", "\n">> \o convertAtlassianDocumentToText(comment.body)

\* --------------------------------------------------------- the source issues
Keys == {"PROJ-1", "PROJ-2", "PROJ-3"}
NoUser == "none"

\* userMapping: Jira account id -> OpenProject user id; "jc" has no entry.
userMapping == [ja |-> "5", jb |-> "6"]
MappedUsers == {"ja", "jb"}

\* getOpenProjectUserId (index.js 42-60)
getOpenProjectUserId(jiraUser) ==
    IF jiraUser = NoUser THEN Null
    ELSE IF jiraUser \in MappedUsers THEN userMapping[jiraUser]
    ELSE Null

Comment(author, second, ms, body) ==
    [author |-> author, created |-> [second |-> second, ms |-> ms], body |-> body]

CommentA == Comment(<<"A">>, <<"1">>, "000", StringDocument(<<"a">>))
\* Written by the same author in the same second, with a body that renders
\* to the same text.
CommentA2 ==
    Comment(<<"A">>, <<"1">>, "500",
            ContentDocument(<<Block(<<[text |-> <<" ">>], [text |-> <<"a">>]>>),
                              BlockWithoutContent>>))
CommentB == Comment(<<"B">>, <<"2">>, "000",
                    ContentDocument(<<Block(<<[text |-> <<"a">>]>>),
                                      Block(<<[text |-> <<"b">>]>>)>>))
CommentEmpty == Comment(<<"B">>, <<"2">>, "000", NullDocument)

\* The issues of the source project: issue.fields as read by migrateIssues.
\* An issue is immutable once fetched, so a key stands for one content.
Fields(key) ==
    IF key = "PROJ-1"
    THEN [assignee |-> "ja", creator |-> "jb",
          attachment |-> <<"spec.pdf", "diagram.png", "diagram.png">>,
          comment |-> [comments |-> <<CommentA, CommentA2>>],
          watches |-> [defined |-> TRUE, watchCount |-> 0]]
    ELSE IF key = "PROJ-2"
    THEN [assignee |-> NoUser, creator |-> "ja",
          attachment |-> <<>>,
          comment |-> [comments |-> <<CommentEmpty, CommentB>>],
          watches |-> [defined |-> TRUE, watchCount |-> 2]]
    ELSE [assignee |-> "ja", creator |-> "ja",
          attachment |-> <<"spec.pdf">>,
          comment |-> [comments |-> <<>>],
          watches |-> [defined |-> FALSE, watchCount |-> 0]]

Issues == {[key |-> k, fields |-> Fields(k)] : k \in Keys}

\* getIssueWatchers: the watcher lists the source reader may return.
WatcherLists == {<<"jc", "ja">>, <<"jb">>}

\* --------------------------------------------------------------- the target
\* A work item of the target project; its id is its position in wps.
WorkPackage(key, attachments, comments) ==
    [jiraId |-> key, attachments |-> attachments, comments |-> comments]

\* The targets a run may start from: each key is carried by at most one
\* work item.
InitialTargets ==
    { <<>>,
      << WorkPackage("PROJ-1", <<"spec.pdf">>, <<formattedComment(CommentA)>>) >>,
      << WorkPackage("PROJ-2", <<>>, <<>>),
         WorkPackage("PROJ-1", <<"spec.pdf">>, <<formattedComment(CommentA)>>) >> }

\* The ids of the work items that carry key in their Jira-ID custom field.
Carrying(items, key) == {i \in 1..Len(items) : items[i].jiraId = key}

\* findExistingWorkPackage: the work item carrying the key, 0 when none.
findExistingWorkPackage(items, key) ==
    IF Carrying(items, key) = {} THEN 0
    ELSE CHOOSE i \in Carrying(items, key) : \A j \in Carrying(items, key) : i <= j

\* getOpenProjectWorkPackages: the map from Jira key to work item.
getOpenProjectWorkPackages(items) ==
    [k \in {items[i].jiraId : i \in 1..Len(items)} |-> findExistingWorkPackage(items, k)]

\* ---------------------------------------------------------------- the state
VARIABLES
    pc,                     \* the statement of migrateIssues to run next
    run,                    \* 1 in a first run, 2 in a re-run on its target
    skipUpdates, mapResponsible,
    wps,                    \* the work items of the target project
    wpsAtStart,             \* wps when the current run started
    tempFiles,              \* the file names present in tempDir
    openProjectWorkPackagesCache,
    jiraIssues, idx,        \* the issue list and the position of the loop
    processed, skipped, errors,
    issueToWorkPackageMap,
    existingWorkPackage,    \* id of the work item found, 0 when none
    assigneeId, responsibleId,
    workPackage,            \* id of the work item created or updated, 0 before
    existingAttachmentNames, ai,
    existingCommentTexts, ci,
    watchers, wi,
    ids,                    \* the identities still to be granted membership
    calls,                  \* the collaborator calls of the current issue
    caught,                 \* the failure caught by an inner catch block
    thrown,                 \* the failure that reached the per-issue handler
    written,                \* the keys whose work item this run found in its
                            \* cache, created or updated
    probe, classified       \* getErrors applied on its own: input and result

config == <<run, skipUpdates, mapResponsible, wpsAtStart>>
history == <<calls, thrown, written>>
locals == <<existingWorkPackage, assigneeId, responsibleId, workPackage,
            existingAttachmentNames, ai, existingCommentTexts, ci, watchers, wi, ids,
            caught>>
counters == <<processed, skipped, errors>>
pure == <<probe, classified>>
vars == <<pc, config, wps, tempFiles, openProjectWorkPackagesCache, jiraIssues, idx,
          counters, issueToWorkPackageMap, locals, history, pure>>

NoError == Data("no error", Undefined, "missing", Undefined, <<>>)
\* A failure of a call whose error the engine never inspects.
Failure == NoResponse
\* The TypeError of reading a property of undefined (index.js 66 and 70).
TypeError == Data("TypeError", Undefined, "missing", Undefined, <<>>)

InitLocals ==
    /\ existingWorkPackage = 0
    /\ assigneeId = Null
    /\ responsibleId = Null
    /\ workPackage = 0
    /\ existingAttachmentNames = {}
    /\ ai = 1
    /\ existingCommentTexts = {}
    /\ ci = 1
    /\ watchers = <<>>
    /\ wi = 1
    /\ ids = <<>>
    /\ caught = NoError

\* The locals of one iteration of the loop, as declared at its start.
FreshLocals ==
    /\ existingWorkPackage' = 0
    /\ assigneeId' = Null
    /\ responsibleId' = Null
    /\ workPackage' = 0
    /\ existingAttachmentNames' = {}
    /\ ai' = 1
    /\ existingCommentTexts' = {}
    /\ ci' = 1
    /\ watchers' = <<>>
    /\ wi' = 1
    /\ ids' = <<>>
    /\ caught' = NoError

Init ==
    /\ pc = "loadUserMapping"
    /\ run = 1
    /\ skipUpdates \in BOOLEAN
    /\ mapResponsible \in BOOLEAN
    /\ wps \in InitialTargets
    /\ wpsAtStart = wps
    /\ tempFiles = {}
    /\ openProjectWorkPackagesCache = << >>
    /\ jiraIssues = <<>>
    /\ idx = 1
    /\ processed = 0 /\ skipped = 0 /\ errors = 0
    /\ issueToWorkPackageMap = << >>
    /\ InitLocals
    /\ calls = <<>>
    /\ thrown = NoError
    /\ written = {}
    /\ probe = NoResponse
    /\ classified = <<>>

issue == jiraIssues[idx]

Log(op, arg, result) == calls' = Append(calls, <<op, arg, result>>)

\* A failure outside the per-issue try block rejects the promise of
\* migrateIssues: nothing catches it.
Reject ==
    /\ pc' = "rejected"
    /\ UNCHANGED <<config, wps, tempFiles, openProjectWorkPackagesCache, jiraIssues, idx,
                   counters, issueToWorkPackageMap, locals, history, pure>>

\* A handler that counts the error and leaves the loop.
CatchAndStop(e) ==
    /\ errors' = errors + 1
    /\ idx' = Len(jiraIssues) + 1
    /\ pc' = "loop"
    /\ thrown' = e
    /\ UNCHANGED <<config, openProjectWorkPackagesCache, jiraIssues, processed, skipped,
                   issueToWorkPackageMap, locals, written, pure>>

\* A handler that takes the entry of the failed issue out of the index.
CatchAndForget(e) ==
    /\ errors' = errors + 1
    /\ idx' = idx + 1
    /\ pc' = "loop"
    /\ thrown' = e
    /\ issueToWorkPackageMap' =
           [k \in DOMAIN issueToWorkPackageMap \ {jiraIssues[idx].key} |->
               issueToWorkPackageMap[k]]
    /\ UNCHANGED <<config, openProjectWorkPackagesCache, jiraIssues, processed, skipped,
                   locals, written, pure>>

\* A handler that counts the failed issue as processed as well.
CatchAndCountProcessed(e) ==
    /\ errors' = errors + 1
    /\ processed' = processed + 1
    /\ idx' = idx + 1
    /\ pc' = "loop"
    /\ thrown' = e
    /\ UNCHANGED <<config, openProjectWorkPackagesCache, jiraIssues, skipped,
                   issueToWorkPackageMap, locals, written, pure>>

\* The catch block of the per-issue try (index.js 360-369): count the error
\* and go on with the next issue.
Catch(e) ==
    /\ errors' = errors + 1
    /\ idx' = idx + 1
    /\ pc' = "loop"
    /\ thrown' = e
    /\ UNCHANGED <<config, openProjectWorkPackagesCache, jiraIssues, processed, skipped,
                   issueToWorkPackageMap, locals, written, pure>>

\* A throw out of an inner catch block that caught c (index.js 237-265 and
\* 333-354): e reaches the catch block of the per-issue try.
Rethrow(c, e) ==
    /\ caught' = c
    /\ errors' = errors + 1
    /\ idx' = idx + 1
    /\ pc' = "loop"
    /\ thrown' = e
    /\ UNCHANGED <<config, openProjectWorkPackagesCache, jiraIssues, processed, skipped,
                   issueToWorkPackageMap, existingWorkPackage, assigneeId, responsibleId,
                   workPackage, existingAttachmentNames, ai, existingCommentTexts, ci,
                   watchers, wi, ids, written, pure>>

\* Map.prototype.set
MapSet(m, k, v) == [x \in DOMAIN m \cup {k} |-> IF x = k THEN v ELSE m[x]]

\* ---------------------------------------------- setup (index.js 94-141)
\* require("./user-mapping"), the prompt and generateMapping.  A failure of
\* generateMapping in the catch block, or after the prompt, is not caught.
LoadUserMapping ==
    /\ pc = "loadUserMapping"
    /\ \/ /\ pc' = "listProjects"
          /\ UNCHANGED <<config, wps, tempFiles, openProjectWorkPackagesCache, jiraIssues,
                         idx, counters, issueToWorkPackageMap, locals, history, pure>>
       \/ Reject

SetupCalls ==
    <<"listProjects", "getWorkPackageTypes", "getWorkPackageStatuses",
      "getWorkPackagePriorities", "getOpenProjectUsers", "cacheWorkPackages">>

\* listProjects and the four table loads (index.js 115-121), one call each.
SetupCall ==
    /\ \E i \in 1..(Len(SetupCalls) - 1) :
        /\ pc = SetupCalls[i]
        /\ \/ /\ pc' = SetupCalls[i + 1]
              /\ UNCHANGED <<config, wps, tempFiles, openProjectWorkPackagesCache,
                             jiraIssues, idx, counters, issueToWorkPackageMap, locals,
                             history, pure>>
           \/ Reject

\* index.js 123-133
CacheWorkPackages ==
    /\ pc = "cacheWorkPackages"
    /\ \/ /\ skipUpdates
          /\ openProjectWorkPackagesCache' = getOpenProjectWorkPackages(wps)
          /\ pc' = "getJiraIssues"
          /\ UNCHANGED <<config, wps, tempFiles, jiraIssues, idx, counters,
                         issueToWorkPackageMap, locals, history, pure>>
       \/ /\ skipUpdates
          /\ Reject
       \/ /\ ~skipUpdates
          /\ pc' = "getJiraIssues"
          /\ UNCHANGED <<config, wps, tempFiles, openProjectWorkPackagesCache, jiraIssues,
                         idx, counters, issueToWorkPackageMap, locals, history, pure>>

\* index.js 135-147: getSpecificJiraIssues / getAllJiraIssues.
GetJiraIssues ==
    /\ pc = "getJiraIssues"
    /\ run = 1
    /\ \/ /\ jiraIssues' \in SeqsUpTo(Issues, MaxIssues)
          /\ pc' = "loop"
          /\ UNCHANGED <<config, wps, tempFiles, openProjectWorkPackagesCache, idx,
                         counters, issueToWorkPackageMap, locals, history, pure>>
       \/ Reject

\* ------------------------------------------ the loop (index.js 149-370)
\* The head of the for loop: the locals of the next iteration are fresh.
NextIssue ==
    /\ pc = "loop"
    /\ idx <= Len(jiraIssues)
    /\ pc' = "lookup"
    /\ FreshLocals
    /\ calls' = <<>>
    /\ thrown' = NoError
    /\ UNCHANGED <<config, wps, tempFiles, openProjectWorkPackagesCache, jiraIssues, idx,
                   counters, issueToWorkPackageMap, written, pure>>

\* A cache lookup that finds nothing.
CacheMiss(key) == 0

\* openProjectWorkPackagesCache.get(issue.key), index.js 156: 0 when absent
CacheGet(key) ==
    IF key \in DOMAIN openProjectWorkPackagesCache
    THEN openProjectWorkPackagesCache[key] ELSE 0

\* index.js 153-171 with skipUpdates: the cache decides.
LookupInCache ==
    /\ pc = "lookup"
    /\ skipUpdates
    /\ IF CacheGet(issue.key) # 0
       THEN /\ issueToWorkPackageMap' =
                   MapSet(issueToWorkPackageMap, issue.key, CacheGet(issue.key))
            /\ existingWorkPackage' = CacheGet(issue.key)
            /\ written' = written \cup {issue.key}
            /\ skipped' = skipped + 1
            /\ idx' = idx + 1
            /\ pc' = "loop"
            /\ UNCHANGED <<processed, errors>>
       ELSE /\ pc' = "resolve"
            /\ UNCHANGED <<issueToWorkPackageMap, existingWorkPackage, counters, idx,
                           written>>
    /\ UNCHANGED <<config, wps, tempFiles, openProjectWorkPackagesCache, jiraIssues,
                   assigneeId, responsibleId, workPackage, existingAttachmentNames, ai,
                   existingCommentTexts, ci, watchers, wi, ids, caught, calls, thrown,
                   pure>>

\* index.js 157-162 without skipUpdates: a live lookup.
FindExistingWorkPackage ==
    /\ pc = "lookup"
    /\ ~skipUpdates
    /\ \/ /\ existingWorkPackage' = findExistingWorkPackage(wps, issue.key)
          /\ Log("findExistingWorkPackage", issue.key, "ok")
          /\ pc' = "resolve"
          /\ UNCHANGED <<config, wps, tempFiles, openProjectWorkPackagesCache, jiraIssues,
                         idx, counters, issueToWorkPackageMap, assigneeId, responsibleId,
                         workPackage, existingAttachmentNames, ai, existingCommentTexts,
                         ci, watchers, wi, ids, caught, thrown, written, pure>>
       \/ /\ Log("findExistingWorkPackage", issue.key, "fail")
          /\ Catch(Failure)
          /\ UNCHANGED <<wps, tempFiles>>

\* index.js 173-181
ResolveIdentities ==
    /\ pc = "resolve"
    /\ assigneeId' = IF issue.fields.assignee # NoUser
                     THEN getOpenProjectUserId(issue.fields.assignee) ELSE Null
    /\ responsibleId' = IF mapResponsible /\ issue.fields.creator # NoUser
                        THEN getOpenProjectUserId(issue.fields.creator) ELSE Null
    /\ pc' = "payload"
    /\ UNCHANGED <<config, wps, tempFiles, openProjectWorkPackagesCache, jiraIssues, idx,
                   counters, issueToWorkPackageMap, existingWorkPackage, workPackage,
                   existingAttachmentNames, ai, existingCommentTexts, ci, watchers, wi,
                   ids, caught, history, pure>>

\* index.js 183-227: the type, status and priority lookups may throw.
BuildPayload ==
    /\ pc = "payload"
    /\ \/ /\ pc' = IF existingWorkPackage # 0 THEN "update" ELSE "create"
          /\ Log("getWorkPackageTypeId", issue.key, "ok")
          /\ UNCHANGED <<config, wps, tempFiles, openProjectWorkPackagesCache, jiraIssues,
                         idx, counters, issueToWorkPackageMap, locals, thrown, written,
                         pure>>
       \/ /\ Log("getWorkPackageTypeId", issue.key, "fail")
          /\ Catch(Failure)
          /\ UNCHANGED <<wps, tempFiles>>

\* An update that answers a rejected assignee with a grant and a retry.
UpdateWithRemediation ==
    /\ pc = "update"
    /\ Log("updateWorkPackage", existingWorkPackage, "fail")
    /\ ids' = <<assigneeId>>
    /\ caught' = SingleError(PropertyConstraintViolation, "assignee")
    /\ pc' = "grantCreate"
    /\ UNCHANGED <<config, wps, tempFiles, openProjectWorkPackagesCache, jiraIssues, idx,
                   counters, issueToWorkPackageMap, existingWorkPackage, assigneeId,
                   responsibleId, workPackage, existingAttachmentNames, ai,
                   existingCommentTexts, ci, watchers, wi, thrown, written, pure>>

\* index.js 230-232
UpdateWorkPackage ==
    /\ pc = "update"
    /\ \/ /\ workPackage' = existingWorkPackage
          /\ written' = written \cup {issue.key}
          /\ Log("updateWorkPackage", existingWorkPackage, "ok")
          /\ pc' = "record"
          /\ UNCHANGED <<config, wps, tempFiles, openProjectWorkPackagesCache, jiraIssues,
                         idx, counters, issueToWorkPackageMap, existingWorkPackage,
                         assigneeId, responsibleId, existingAttachmentNames, ai,
                         existingCommentTexts, ci, watchers, wi, ids, caught, thrown,
                         pure>>
       \/ /\ \E e \in {Failure, SingleError(PropertyConstraintViolation, "assignee")} :
                Catch(e)
          /\ Log("updateWorkPackage", existingWorkPackage, "fail")
          /\ UNCHANGED <<wps, tempFiles>>

\* The failures createWorkPackage may end with: the target names an
\* attribute only when the payload carries it.
CreateFailures(assignee, responsible) ==
    {NoResponse, SingleError(OtherError, Undefined),
     SingleError(PropertyConstraintViolation, "subject"),
     Data("Error", OtherError, "missing", Undefined, <<>>)}
    \cup (IF assignee # Null
          THEN {SingleError(PropertyConstraintViolation, "assignee"),
                CompositeError(<<SingleError(OtherError, Undefined),
                                 SingleError(PropertyConstraintViolation, "assignee")>>)}
          ELSE {})
    \cup (IF responsible # Null
          THEN {SingleError(PropertyConstraintViolation, "responsible")}
          ELSE {})
    \cup (IF assignee # Null /\ responsible # Null
          THEN {CompositeError(<<SingleError(PropertyConstraintViolation, "assignee"),
                                 SingleError(PropertyConstraintViolation, "responsible")>>)}
          ELSE {})

\* The failures addWatcher may end with.
WatcherFailures ==
    {NoResponse, SingleError(OtherError, Undefined),
     SingleError(PropertyConstraintViolation, "user"),
     Data("Error", OtherError, "missing", Undefined, <<>>)}

\* A test of the classified errors that finds every failure remediable.
AlwaysRemediable(e, attributes) == TRUE

\* errors.includes(a) for some a of attributes (index.js 248 and 344).
Remediable(e, attributes) == FailingAttributes(e) \cap attributes # {}

\* Object.keys of the object filled at index.js 249-252: integer-like keys
\* in ascending order first, then "null".
KeyOrder == <<"5", "6", Null>>
IsToAdd(id, responsible, assignee) == id \in {responsible, assignee}
ToAdd(responsible, assignee) ==
    LET keep(id) == IsToAdd(id, responsible, assignee) IN SelectSeq(KeyOrder, keep)

\* The effect of a successful createWorkPackage on the target.
Created(key) == Append(wps, WorkPackage(key, <<>>, <<>>))

\* index.js 234-266, the first createWorkPackage and its catch block.
CreateWorkPackage ==
    /\ pc = "create"
    /\ \/ /\ wps' = Created(issue.key)
          /\ workPackage' = Len(wps) + 1
          /\ written' = written \cup {issue.key}
          /\ Log("createWorkPackage", issue.key, "ok")
          /\ pc' = "record"
          /\ UNCHANGED <<config, tempFiles, openProjectWorkPackagesCache, jiraIssues,
                         idx, counters, issueToWorkPackageMap, existingWorkPackage,
                         assigneeId, responsibleId, existingAttachmentNames, ai,
                         existingCommentTexts, ci, watchers, wi, ids, caught, thrown,
                         pure>>
       \/ \E e \in CreateFailures(assigneeId, responsibleId) :
            /\ Log("createWorkPackage", issue.key, "fail")
            /\ UNCHANGED <<wps, tempFiles>>
            /\ IF getErrorsThrows(e) THEN Rethrow(e, TypeError)
               ELSE IF Remediable(e, {"assignee", "responsible"})
               THEN /\ ids' = ToAdd(responsibleId, assigneeId)
                    /\ caught' = e
                    /\ pc' = "grantCreate"
                    /\ UNCHANGED <<config, openProjectWorkPackagesCache, jiraIssues, idx,
                                   counters, issueToWorkPackageMap, existingWorkPackage,
                                   assigneeId, responsibleId, workPackage,
                                   existingAttachmentNames, ai, existingCommentTexts, ci,
                                   watchers, wi, thrown, written, pure>>
               ELSE Rethrow(e, e)

\* index.js 255-257: one addUserToProject call per key of toAdd.
GrantForCreate ==
    /\ pc = "grantCreate"
    /\ \/ /\ Log("addUserToProject", Head(ids), "ok")
          /\ ids' = Tail(ids)
          /\ pc' = IF Tail(ids) = <<>> THEN "retryCreate" ELSE "grantCreate"
          /\ UNCHANGED <<config, wps, tempFiles, openProjectWorkPackagesCache, jiraIssues,
                         idx, counters, issueToWorkPackageMap, existingWorkPackage,
                         assigneeId, responsibleId, workPackage, existingAttachmentNames,
                         ai, existingCommentTexts, ci, watchers, wi, caught, thrown, written, pure>>
       \/ /\ Log("addUserToProject", Head(ids), "fail")
          /\ Catch(Failure)
          /\ UNCHANGED <<wps, tempFiles>>

\* A retry that, on failure, goes back to the grants and tries again.
RetryCreateInALoop ==
    /\ pc = "retryCreate"
    /\ Log("createWorkPackage", issue.key, "fail")
    /\ pc' = "retryCreate"
    /\ UNCHANGED <<config, wps, tempFiles, openProjectWorkPackagesCache, jiraIssues, idx,
                   counters, issueToWorkPackageMap, locals, thrown, written, pure>>

\* index.js 259-261: the second createWorkPackage; nothing catches its failure
\* before the per-issue handler.
RetryCreateWorkPackage ==
    /\ pc = "retryCreate"
    /\ \/ /\ wps' = Created(issue.key)
          /\ workPackage' = Len(wps) + 1
          /\ written' = written \cup {issue.key}
          /\ Log("createWorkPackage", issue.key, "ok")
          /\ pc' = "record"
          /\ UNCHANGED <<config, tempFiles, openProjectWorkPackagesCache, jiraIssues,
                         idx, counters, issueToWorkPackageMap, existingWorkPackage,
                         assigneeId, responsibleId, existingAttachmentNames, ai,
                         existingCommentTexts, ci, watchers, wi, ids, caught, thrown,
                         pure>>
       \/ \E e \in CreateFailures(assigneeId, responsibleId) :
            /\ Log("createWorkPackage", issue.key, "fail")
            /\ Catch(e)
            /\ UNCHANGED <<wps, tempFiles>>

\* A loop body that forgets to record the work item.
RecordNothing ==
    /\ pc = "record"
    /\ pc' = "attachments"
    /\ UNCHANGED <<config, wps, tempFiles, openProjectWorkPackagesCache, jiraIssues, idx,
                   counters, issueToWorkPackageMap, locals, history, pure>>

\* index.js 270
RecordWorkPackage ==
    /\ pc = "record"
    /\ issueToWorkPackageMap' = MapSet(issueToWorkPackageMap, issue.key, workPackage)
    /\ pc' = "attachments"
    /\ UNCHANGED <<config, wps, tempFiles, openProjectWorkPackagesCache, jiraIssues, idx,
                   counters, locals, history, pure>>

\* ------------------------------------------- attachments (index.js 272-297)
attachment == issue.fields.attachment[ai]

\* index.js 273-279: the existing attachments are listed once, before the loop.
GetExistingAttachments ==
    /\ pc = "attachments"
    /\ IF Len(issue.fields.attachment) > 0
       THEN \/ /\ existingAttachmentNames' = Range(wps[workPackage].attachments)
               /\ Log("getExistingAttachments", workPackage, "ok")
               /\ pc' = "attachment"
               /\ UNCHANGED <<config, wps, tempFiles, openProjectWorkPackagesCache,
                              jiraIssues, idx, counters, issueToWorkPackageMap,
                              existingWorkPackage, assigneeId, responsibleId, workPackage,
                              ai, existingCommentTexts, ci, watchers, wi, ids, caught,
                              thrown, written, pure>>
            \/ /\ Log("getExistingAttachments", workPackage, "fail")
               /\ Catch(Failure)
               /\ UNCHANGED <<wps, tempFiles>>
       ELSE /\ pc' = "comments"
            /\ UNCHANGED <<config, wps, tempFiles, openProjectWorkPackagesCache,
                           jiraIssues, idx, counters, issueToWorkPackageMap, locals,
                           history, pure>>

\* A dedup check that never finds the candidate.
NeverExists(name) == FALSE

\* A dedup check against the attachments the work item holds at the moment.
ExistsOnTarget(name) == name \in Range(wps[workPackage].attachments)

\* existingAttachmentNames.includes(attachment.filename), index.js 282
AttachmentExists(name) == name \in existingAttachmentNames

\* index.js 281-289: skip a name of the fetched list, download any other.
NextAttachment ==
    /\ pc = "attachment"
    /\ IF ai > Len(issue.fields.attachment)
       THEN /\ pc' = "comments"
            /\ UNCHANGED <<ai, tempFiles, calls, counters, idx, thrown, caught>>
            /\ UNCHANGED <<config, openProjectWorkPackagesCache, jiraIssues,
                           issueToWorkPackageMap, existingWorkPackage, assigneeId,
                           responsibleId, workPackage, existingAttachmentNames,
                           existingCommentTexts, ci, watchers, wi, ids, written, pure>>
       ELSE IF AttachmentExists(attachment)
       THEN /\ ai' = ai + 1
            /\ pc' = "attachment"
            /\ UNCHANGED <<tempFiles, calls, counters, idx, thrown, caught>>
            /\ UNCHANGED <<config, openProjectWorkPackagesCache, jiraIssues,
                           issueToWorkPackageMap, existingWorkPackage, assigneeId,
                           responsibleId, workPackage, existingAttachmentNames,
                           existingCommentTexts, ci, watchers, wi, ids, written, pure>>
       ELSE \/ /\ tempFiles' = tempFiles \cup {attachment}
               /\ Log("downloadAttachment", attachment, "ok")
               /\ pc' = "upload"
               /\ UNCHANGED <<ai, counters, idx, thrown, caught>>
               /\ UNCHANGED <<config, openProjectWorkPackagesCache, jiraIssues,
                              issueToWorkPackageMap, existingWorkPackage, assigneeId,
                              responsibleId, workPackage, existingAttachmentNames,
                              existingCommentTexts, ci, watchers, wi, ids, written, pure>>
            \/ /\ tempFiles' \in {tempFiles, tempFiles \cup {attachment}}
               /\ Log("downloadAttachment", attachment, "fail")
               /\ Catch(Failure)
    /\ UNCHANGED wps

\* The effect of a successful uploadAttachment on the target.
Uploaded(id, name) ==
    [wps EXCEPT ![id].attachments = Append(wps[id].attachments, name)]

\* index.js 290-295: upload, then fs.unlinkSync of the temporary copy.
UploadAttachment ==
    /\ pc = "upload"
    /\ \/ /\ wps' = Uploaded(workPackage, attachment)
          /\ tempFiles' = tempFiles \ {attachment}
          /\ Log("uploadAttachment", attachment, "ok")
          /\ ai' = ai + 1
          /\ pc' = "attachment"
          /\ UNCHANGED <<config, openProjectWorkPackagesCache, jiraIssues, idx, counters,
                         issueToWorkPackageMap, existingWorkPackage, assigneeId,
                         responsibleId, workPackage, existingAttachmentNames,
                         existingCommentTexts, ci, watchers, wi, ids, caught, thrown,
                         written, pure>>
       \/ /\ Log("uploadAttachment", attachment, "fail")
          /\ Catch(Failure)
          /\ UNCHANGED <<wps, tempFiles>>

\* ---------------------------------------------- comments (index.js 299-322)
comment == issue.fields.comment.comments[ci]

\* index.js 300-302: the existing comments are listed once, before the loop.
GetExistingComments ==
    /\ pc = "comments"
    /\ IF Len(issue.fields.comment.comments) > 0
       THEN \/ /\ existingCommentTexts' = Range(wps[workPackage].comments)
               /\ Log("getExistingComments", workPackage, "ok")
               /\ pc' = "comment"
               /\ UNCHANGED <<config, wps, tempFiles, openProjectWorkPackagesCache,
                              jiraIssues, idx, counters, issueToWorkPackageMap,
                              existingWorkPackage, assigneeId, responsibleId, workPackage,
                              existingAttachmentNames, ai, ci, watchers, wi, ids, caught,
                              thrown, written, pure>>
            \/ /\ Log("getExistingComments", workPackage, "fail")
               /\ Catch(Failure)
               /\ UNCHANGED <<wps, tempFiles>>
       ELSE /\ pc' = "watchers"
            /\ UNCHANGED <<config, wps, tempFiles, openProjectWorkPackagesCache,
                           jiraIssues, idx, counters, issueToWorkPackageMap, locals,
                           history, pure>>

\* The effect of a successful addComment on the target.
Commented(id, text) ==
    [wps EXCEPT ![id].comments = Append(wps[id].comments, text)]

\* existingCommentTexts.includes(formattedComment), index.js 313
CommentExists(text) == text \in existingCommentTexts

\* index.js 304-321
NextComment ==
    /\ pc = "comment"
    /\ IF ci > Len(issue.fields.comment.comments)
       THEN /\ pc' = "watchers"
            /\ UNCHANGED <<ci, wps, calls, counters, idx, thrown, caught>>
            /\ UNCHANGED <<config, openProjectWorkPackagesCache, jiraIssues,
                           issueToWorkPackageMap, existingWorkPackage, assigneeId,
                           responsibleId, workPackage, existingAttachmentNames, ai,
                           existingCommentTexts, watchers, wi, ids, written, pure>>
       ELSE IF \/ convertAtlassianDocumentToText(comment.body) = <<>>
               \/ CommentExists(formattedComment(comment))
       THEN /\ ci' = ci + 1
            /\ pc' = "comment"
            /\ UNCHANGED <<wps, calls, counters, idx, thrown, caught>>
            /\ UNCHANGED <<config, openProjectWorkPackagesCache, jiraIssues,
                           issueToWorkPackageMap, existingWorkPackage, assigneeId,
                           responsibleId, workPackage, existingAttachmentNames, ai,
                           existingCommentTexts, watchers, wi, ids, written, pure>>
       ELSE \/ /\ wps' = Commented(workPackage, formattedComment(comment))
               /\ Log("addComment", formattedComment(comment), "ok")
               /\ ci' = ci + 1
               /\ pc' = "comment"
               /\ UNCHANGED <<counters, idx, thrown, caught>>
               /\ UNCHANGED <<config, openProjectWorkPackagesCache, jiraIssues,
                              issueToWorkPackageMap, existingWorkPackage, assigneeId,
                              responsibleId, workPackage, existingAttachmentNames, ai,
                              existingCommentTexts, watchers, wi, ids, written, pure>>
            \/ /\ Log("addComment", formattedComment(comment), "fail")
               /\ Catch(Failure)
               /\ UNCHANGED wps
    /\ UNCHANGED tempFiles

\* ---------------------------------------------- watchers (index.js 324-357)
watcherId == getOpenProjectUserId(watchers[wi])

\* A guard that lets every issue into the watcher step.
AlwaysHasWatchers(fields) == TRUE

\* issue.fields.watches?.watchCount > 0 (index.js 325): false when the issue
\* carries no watches field.
HasWatchers(fields) == fields.watches.defined /\ fields.watches.watchCount > 0

\* index.js 325-327: the watcher list is fetched only for a positive count.
GetIssueWatchers ==
    /\ pc = "watchers"
    /\ IF HasWatchers(issue.fields)
       THEN \/ /\ watchers' \in WatcherLists
               /\ Log("getIssueWatchers", issue.key, "ok")
               /\ pc' = "watcher"
               /\ UNCHANGED <<config, wps, tempFiles, openProjectWorkPackagesCache,
                              jiraIssues, idx, counters, issueToWorkPackageMap,
                              existingWorkPackage, assigneeId, responsibleId, workPackage,
                              existingAttachmentNames, ai, existingCommentTexts, ci, wi,
                              ids, caught, thrown, written, pure>>
            \/ /\ Log("getIssueWatchers", issue.key, "fail")
               /\ Catch(Failure)
               /\ UNCHANGED <<wps, tempFiles>>
       ELSE /\ pc' = "done"
            /\ UNCHANGED <<config, wps, tempFiles, openProjectWorkPackagesCache,
                           jiraIssues, idx, counters, issueToWorkPackageMap, locals,
                           history, pure>>

\* index.js 328-355, the first addWatcher and its catch block.
NextWatcher ==
    /\ pc = "watcher"
    /\ IF wi > Len(watchers)
       THEN /\ pc' = "done"
            /\ UNCHANGED <<wi, caught, calls, counters, idx, thrown>>
            /\ UNCHANGED <<config, openProjectWorkPackagesCache, jiraIssues,
                           issueToWorkPackageMap, existingWorkPackage, assigneeId,
                           responsibleId, workPackage, existingAttachmentNames, ai,
                           existingCommentTexts, ci, watchers, ids, written, pure>>
       ELSE IF watcherId = Null
       THEN /\ wi' = wi + 1
            /\ pc' = "watcher"
            /\ UNCHANGED <<caught, calls, counters, idx, thrown>>
            /\ UNCHANGED <<config, openProjectWorkPackagesCache, jiraIssues,
                           issueToWorkPackageMap, existingWorkPackage, assigneeId,
                           responsibleId, workPackage, existingAttachmentNames, ai,
                           existingCommentTexts, ci, watchers, ids, written, pure>>
       ELSE \/ /\ Log("addWatcher", watcherId, "ok")
               /\ wi' = wi + 1
               /\ pc' = "watcher"
               /\ UNCHANGED <<caught, counters, idx, thrown>>
               /\ UNCHANGED <<config, openProjectWorkPackagesCache, jiraIssues,
                              issueToWorkPackageMap, existingWorkPackage, assigneeId,
                              responsibleId, workPackage, existingAttachmentNames, ai,
                              existingCommentTexts, ci, watchers, ids, written, pure>>
            \/ \E e \in WatcherFailures :
                 /\ Log("addWatcher", watcherId, "fail")
                 /\ IF getErrorsThrows(e) THEN Rethrow(e, TypeError)
                    ELSE IF Remediable(e, {"user"})
                    THEN /\ caught' = e
                         /\ pc' = "grantWatcher"
                         /\ UNCHANGED <<wi, counters, idx, thrown>>
                         /\ UNCHANGED <<config, openProjectWorkPackagesCache, jiraIssues,
                                        issueToWorkPackageMap, existingWorkPackage,
                                        assigneeId, responsibleId, workPackage,
                                        existingAttachmentNames, ai, existingCommentTexts,
                                        ci, watchers, ids, written, pure>>
                    ELSE Rethrow(e, e)
    /\ UNCHANGED <<wps, tempFiles>>

\* index.js 345-346
GrantForWatcher ==
    /\ pc = "grantWatcher"
    /\ \/ /\ Log("addUserToProject", watcherId, "ok")
          /\ pc' = "retryWatcher"
          /\ UNCHANGED <<config, openProjectWorkPackagesCache, jiraIssues, idx, counters,
                         issueToWorkPackageMap, locals, thrown, written, pure>>
       \/ /\ Log("addUserToProject", watcherId, "fail")
          /\ Catch(Failure)
    /\ UNCHANGED <<wps, tempFiles>>

\* index.js 347-349: the second addWatcher.
RetryAddWatcher ==
    /\ pc = "retryWatcher"
    /\ \/ /\ Log("addWatcher", watcherId, "ok")
          /\ wi' = wi + 1
          /\ pc' = "watcher"
          /\ UNCHANGED <<config, openProjectWorkPackagesCache, jiraIssues, idx, counters,
                         issueToWorkPackageMap, existingWorkPackage, assigneeId,
                         responsibleId, workPackage, existingAttachmentNames, ai,
                         existingCommentTexts, ci, watchers, ids, caught, thrown, written, pure>>
       \/ \E e \in WatcherFailures :
            /\ Log("addWatcher", watcherId, "fail")
            /\ Catch(e)
    /\ UNCHANGED <<wps, tempFiles>>

\* index.js 359
IssueDone ==
    /\ pc = "done"
    /\ processed' = processed + 1
    /\ idx' = idx + 1
    /\ pc' = "loop"
    /\ UNCHANGED <<config, wps, tempFiles, openProjectWorkPackagesCache, jiraIssues,
                   skipped, errors, issueToWorkPackageMap, locals, history, pure>>

\* The for loop ends when the list is exhausted.
LoopEnd ==
    /\ pc = "loop"
    /\ idx > Len(jiraIssues)
    /\ pc' = "cleanup"
    /\ UNCHANGED <<config, wps, tempFiles, openProjectWorkPackagesCache, jiraIssues, idx,
                   counters, issueToWorkPackageMap, locals, history, pure>>

\* index.js 372-384: fs.rmSync of tempDir, then the summary and the return.
CleanupAndReturn ==
    /\ pc = "cleanup"
    /\ \/ /\ tempFiles' = {}
          /\ pc' = "returned"
          /\ UNCHANGED <<config, wps, openProjectWorkPackagesCache, jiraIssues, idx,
                         counters, issueToWorkPackageMap, locals, history, pure>>
       \/ Reject

Next ==
    \/ LoadUserMapping
    \/ SetupCall
    \/ CacheWorkPackages
    \/ GetJiraIssues
    \/ NextIssue
    \/ LookupInCache
    \/ FindExistingWorkPackage
    \/ ResolveIdentities
    \/ BuildPayload
    \/ UpdateWorkPackage
    \/ CreateWorkPackage
    \/ GrantForCreate
    \/ RetryCreateWorkPackage
    \/ RecordWorkPackage
    \/ GetExistingAttachments
    \/ NextAttachment
    \/ UploadAttachment
    \/ GetExistingComments
    \/ NextComment
    \/ GetIssueWatchers
    \/ NextWatcher
    \/ GrantForWatcher
    \/ RetryAddWatcher
    \/ IssueDone
    \/ LoopEnd
    \/ CleanupAndReturn

Spec == Init /\ [][Next]_vars

\* ------------------------------------------------ a second run of migrate
\* migrate is started again, with the same options, on the same source data
\* and on the target a first run without skipUpdates left when it finished
\* with no error.
Rerun ==
    /\ pc = "returned"
    /\ run = 1
    /\ ~skipUpdates
    /\ errors = 0
    /\ run' = 2
    /\ wpsAtStart' = wps
    /\ pc' = "loadUserMapping"
    /\ idx' = 1
    /\ processed' = 0 /\ skipped' = 0 /\ errors' = 0
    /\ issueToWorkPackageMap' = << >>
    /\ FreshLocals
    /\ calls' = <<>>
    /\ thrown' = NoError
    /\ written' = {}
    /\ UNCHANGED <<skipUpdates, mapResponsible, wps, tempFiles,
                   openProjectWorkPackagesCache, jiraIssues, pure>>

\* index.js 135-147 in the second run: the source reader returns the same list.
GetSameJiraIssues ==
    /\ pc = "getJiraIssues"
    /\ run = 2
    /\ \/ /\ pc' = "loop"
          /\ UNCHANGED <<config, wps, tempFiles, openProjectWorkPackagesCache, jiraIssues,
                         idx, counters, issueToWorkPackageMap, locals, history, pure>>
       \/ Reject

RerunNext == Next \/ Rerun \/ GetSameJiraIssues

RerunSpec == Init /\ [][RerunNext]_vars

\* ------------------------------------------------- getErrors on its own
\* Envelopes that lack a part getErrors reads.
MalformedLeaves ==
    {Data("Error", OtherError, "missing", Undefined, <<>>),
     Data("Error", MultipleErrors, "empty", Undefined, <<>>)}
Malformed ==
    MalformedLeaves
    \cup {CompositeError(s) :
            s \in SeqsUpTo(SingleErrors \cup NotEnvelopes \cup MalformedLeaves,
                           MaxSubErrors)}

ErrorInputs == WellFormed \cup Malformed

ErrInit ==
    /\ pc = "classify"
    /\ run = 1
    /\ skipUpdates = FALSE
    /\ mapResponsible = FALSE
    /\ wps = <<>>
    /\ wpsAtStart = <<>>
    /\ tempFiles = {}
    /\ openProjectWorkPackagesCache = << >>
    /\ jiraIssues = <<>>
    /\ idx = 1
    /\ processed = 0 /\ skipped = 0 /\ errors = 0
    /\ issueToWorkPackageMap = << >>
    /\ InitLocals
    /\ calls = <<>>
    /\ thrown = NoError
    /\ written = {}
    /\ probe \in ErrorInputs
    /\ classified = <<>>

\* One call getErrors({ response: { data: probe } }).
Classify ==
    /\ pc = "classify"
    /\ IF getErrorsThrows(probe)
       THEN pc' = "classifyThrew" /\ classified' = <<>>
       ELSE pc' = "classified" /\ classified' = getErrors(probe)
    /\ UNCHANGED <<config, wps, tempFiles, openProjectWorkPackagesCache, jiraIssues, idx,
                   counters, issueToWorkPackageMap, locals, history, probe>>

ErrNext == Classify

ErrSpec == ErrInit /\ [][ErrNext]_vars

\* =============================================================== properties
\* The positions in the call log of the current issue that hold a call of op.
CallsOf(op) == {i \in 1..Len(calls) : calls[i][1] = op}
Failed(i) == calls[i][3] = "fail"
NoDuplicates(s) == \A i, j \in 1..Len(s) : s[i] = s[j] => i = j
ListedKeys == {jiraIssues[i].key : i \in 1..Len(jiraIssues)}
InLoopBody ==
    pc \in {"lookup", "resolve", "payload", "update", "create", "grantCreate",
            "retryCreate", "record", "attachments", "attachment", "upload", "comments",
            "comment", "watchers", "watcher", "grantWatcher", "retryWatcher", "done"}

C2_NoDuplicateSubEntity ==
    \A i \in 1..Len(wps) :
        NoDuplicates(wps[i].attachments) /\ NoDuplicates(wps[i].comments)

\* C3: a second run without skipUpdates, on the same issues and on the target
\* an error-free first run left, issues no createWorkPackage, uploadAttachment
\* or addComment call and leaves work items, attachments and comments as they
\* were.
C3_RerunChangesNothing ==
    run = 2 =>
        /\ wps = wpsAtStart
        /\ CallsOf("createWorkPackage") = {}
        /\ CallsOf("uploadAttachment") = {}
        /\ CallsOf("addComment") = {}

\* A second run went through a list of two issues, one of them with
\* attachments and comments on its work item, and returned.
C3_Witness ==
    /\ run = 2
    /\ pc = "returned"
    /\ processed = 2
    /\ \E i \in 1..Len(wps) :
          /\ wps[i].jiraId \in ListedKeys
          /\ Len(wps[i].attachments) >= 2
          /\ Len(wps[i].comments) >= 1

\* C4: a failure inside the per-issue loop (a failed call that no inner catch
\* block remediates) adds exactly one to the error counter, ends the issue at
\* hand only and never the loop: the loop goes on with the next issue, leaves
\* only when the list is exhausted, and no step of the loop body rejects the
\* run.
C4_FailureIsolation ==
    [][ /\ ( /\ InLoopBody
             /\ Len(calls') = Len(calls) + 1
             /\ calls'[Len(calls')][3] = "fail"
             /\ pc' \notin {"grantCreate", "grantWatcher"} )
           => ( /\ errors' = errors + 1
                /\ idx' = idx + 1
                /\ pc' = "loop"
                /\ processed' = processed /\ skipped' = skipped
                /\ jiraIssues' = jiraIssues )
        /\ (InLoopBody /\ errors' # errors) => (errors' = errors + 1 /\ idx' = idx + 1)
        /\ (pc = "loop" /\ pc' = "cleanup") => idx > Len(jiraIssues)
        /\ (pc = "loop" /\ idx <= Len(jiraIssues)) => pc' = "lookup"
        /\ InLoopBody => pc' \notin {"rejected", "cleanup", "returned"}
      ]_vars

\* The first issue of the list failed and the second one was completed.
C4_Witness ==
    /\ pc = "returned"
    /\ Len(jiraIssues) = 2
    /\ errors = 1
    /\ processed = 1
    /\ thrown = NoError

\* C5: no failure of a collaborator makes the run fail: the promise of
\* migrateIssues is never rejected.
C5_RunNeverRejected == pc # "rejected"

\* C6: for one work-item creation createWorkPackage is invoked at most twice
\* and for one watcher addWatcher is invoked at most twice; a failure of the
\* second invocation is the last call of the issue and reaches the per-issue
\* handler.
C6_RetryBound ==
    /\ Cardinality(CallsOf("createWorkPackage")) <= 2
    /\ \A id \in {"5", "6"} :
          Cardinality({i \in CallsOf("addWatcher") : calls[i][2] = id}) <= 2
    /\ \A i, j \in CallsOf("createWorkPackage") :
          (i < j /\ Failed(j)) =>
              /\ j = Len(calls)
              /\ ~InLoopBody
              /\ thrown # NoError
    /\ \A i, j \in CallsOf("addWatcher") :
          (i < j /\ calls[i][2] = calls[j][2] /\ Failed(j)) =>
              /\ j = Len(calls)
              /\ ~InLoopBody
              /\ thrown # NoError

\* createWorkPackage failed with a remediable error, the grants were made
\* and the second invocation failed with a remediable error again.
C6_Witness ==
    /\ Cardinality(CallsOf("createWorkPackage")) = 2
    /\ \A i \in CallsOf("createWorkPackage") : Failed(i)
    /\ CallsOf("addUserToProject") # {}
    /\ Remediable(thrown, {"assignee", "responsible"})

\* The identities the failing attributes of a rejected creation refer to.
FailingIdentities(e) ==
    {assigneeId : a \in FailingAttributes(e) \cap {"assignee"}}
    \cup {responsibleId : a \in FailingAttributes(e) \cap {"responsible"}}

\* C7: after a remediable failure of a creation, membership is granted to
\* the identities of the attributes reported as failing, once each, and to
\* nothing else: not to an identity whose attribute did not fail and not to
\* an absent (null) assignee or responsible.
C7_GrantsOnlyFailingIdentities ==
    pc \in {"grantCreate", "retryCreate"} =>
        /\ \A i \in CallsOf("addUserToProject") :
              calls[i][2] \in FailingIdentities(caught) \ {Null}
        /\ \A i, j \in CallsOf("addUserToProject") : calls[i][2] = calls[j][2] => i = j
        /\ pc = "retryCreate" =>
              \A id \in FailingIdentities(caught) \ {Null} :
                  \E i \in CallsOf("addUserToProject") : calls[i][2] = id

\* C8: with skipUpdates, an issue whose key is in the pre-fetched cache
\* causes no collaborator call and no change of the target, adds one to the
\* skipped counter and maps its key to the cached work item's id; the loop
\* body beyond the lookup is only ever entered for a key that is not cached.
C8_SkipMode ==
    /\ [](( /\ skipUpdates
            /\ pc \in {"resolve", "payload", "update", "create", "grantCreate",
                       "retryCreate", "record", "attachments", "attachment", "upload",
                       "comments", "comment", "watchers", "watcher", "grantWatcher",
                       "retryWatcher", "done"} )
          => issue.key \notin DOMAIN openProjectWorkPackagesCache)
    /\ [][ ( /\ pc = "lookup"
             /\ skipUpdates
             /\ issue.key \in DOMAIN openProjectWorkPackagesCache )
           => ( /\ pc' = "loop"
                /\ idx' = idx + 1
                /\ skipped' = skipped + 1
                /\ processed' = processed /\ errors' = errors
                /\ calls' = <<>>
                /\ wps' = wps
                /\ issue.key \in DOMAIN issueToWorkPackageMap'
                /\ issueToWorkPackageMap'[issue.key] =
                       openProjectWorkPackagesCache[issue.key]
                /\ wps[issueToWorkPackageMap'[issue.key]].jiraId = issue.key )
         ]_vars

\* An issue found in the cache was skipped.
C8_Witness ==
    /\ skipUpdates
    /\ pc = "loop"
    /\ skipped >= 1
    /\ idx > 1
    /\ jiraIssues[idx - 1].key \in DOMAIN openProjectWorkPackagesCache
    /\ calls = <<>>

\* C9: when migrateIssues returns, every issue of the list has its entry in
\* the output index and no other key has one.
C9_IndexCoversEveryIssue ==
    pc = "returned" => DOMAIN issueToWorkPackageMap = ListedKeys

\* C9 as amended: when migrateIssues returns, the output index has one entry
\* for every key of the list whose work item the run found in its cache,
\* created or updated, each naming a work item that carries the key, and no
\* entry for any other key.
C9_IndexOfWrittenIssues ==
    pc = "returned" =>
        /\ DOMAIN issueToWorkPackageMap = written
        /\ written \subseteq ListedKeys
        /\ \A k \in DOMAIN issueToWorkPackageMap :
              /\ issueToWorkPackageMap[k] \in 1..Len(wps)
              /\ wps[issueToWorkPackageMap[k]].jiraId = k

\* One issue failed before its work item was written, another was skipped
\* or written, and the run returned.
C9_Witness ==
    /\ pc = "returned"
    /\ Len(jiraIssues) = 2
    /\ Cardinality(ListedKeys) = 2
    /\ Cardinality(DOMAIN issueToWorkPackageMap) = 1
    /\ errors >= 1

\* The entry a single error stands for in the classified list.
EntryOf(d) == [error |-> d.errorIdentifier, details |-> d.details]
IsSingleError(d) == d.type = "Error" /\ d.errorIdentifier # MultipleErrors
IsComposite(d) == d.type = "Error" /\ d.errorIdentifier = MultipleErrors

RECURSIVE LeafCount(_), LeavesBefore(_, _), LeafAt(_, _)
\* The number of single errors of an envelope, at any depth.
LeafCount(d) ==
    IF IsSingleError(d) THEN 1
    ELSE IF IsComposite(d) THEN LeavesBefore(d, Len(d.errors) + 1)
    ELSE 0
\* The number of single errors in the sub-errors of d before position n.
LeavesBefore(d, n) ==
    IF n <= 1 THEN 0 ELSE LeavesBefore(d, n - 1) + LeafCount(d.errors[n - 1])
\* The k-th single error of an envelope, reading it from left to right.
LeafAt(d, k) ==
    IF IsSingleError(d) THEN d
    ELSE LET n == CHOOSE i \in 1..Len(d.errors) :
                      LeavesBefore(d, i) < k /\ k <= LeavesBefore(d, i + 1)
         IN LeafAt(d.errors[n], k - LeavesBefore(d, n))

\* C10: getErrors of a MultipleErrors envelope with N single sub-errors is
\* the list of their N entries in order, nested composites contribute their
\* single errors in place; of a single-error envelope it is the one entry
\* made of its identifier and details; of anything that is no envelope of
\* _type "Error" it is the empty list.
C10_Flattening ==
    pc = "classified" =>
        /\ probe.type # "Error" => classified = <<>>
        /\ IsSingleError(probe) =>
              classified = << [error |-> probe.errorIdentifier,
                               details |-> probe.details] >>
        /\ (IsComposite(probe) /\ \A i \in 1..Len(probe.errors) :
                                     IsSingleError(probe.errors[i])) =>
              /\ Len(classified) = Len(probe.errors)
              /\ \A i \in 1..Len(probe.errors) : classified[i] = EntryOf(probe.errors[i])
        /\ IsComposite(probe) =>
              /\ Len(classified) = LeafCount(probe)
              /\ \A k \in 1..LeafCount(probe) : classified[k] = EntryOf(LeafAt(probe, k))

\* A composite whose first sub-error is a composite of two different single
\* errors and whose second sub-error is a single error was classified.
C10_Witness ==
    /\ pc = "classified"
    /\ IsComposite(probe)
    /\ Len(probe.errors) = 2
    /\ IsComposite(probe.errors[1])
    /\ Len(probe.errors[1].errors) = 2
    /\ probe.errors[1].errors[1] # probe.errors[1].errors[2]
    /\ IsSingleError(probe.errors[2])
    /\ Len(classified) = 3

\* C11: getErrors never fails: whatever the failure value it is given, an
\* envelope of _type "Error" without _embedded part, a MultipleErrors
\* envelope without embedded list and a malformed sub-error included, the
\* call returns a list and does not raise.
C11_ClassifierNeverFails ==
    pc \in {"classified", "classifyThrew"} => pc = "classified"

\* C12: the temporary copy of a downloaded attachment exists only between
\* its download and the end of its upload: once the attachment is dealt with
\* (upload succeeded, upload failed, or download failed after creating the
\* file) tempDir holds no file when the engine goes on.
C12_TempFilesRemoved ==
    /\ pc = "upload" => tempFiles \subseteq {attachment}
    /\ pc # "upload" => tempFiles = {}

\* The issue the call log belongs to: the one in the loop body, or the one
\* the loop dealt with last.
LoggedIssue == IF InLoopBody THEN jiraIssues[idx] ELSE jiraIssues[idx - 1]
\* The logged calls of op, in order.
CallSeq(op) == LET isOp(c) == c[1] = op IN SelectSeq(calls, isOp)

\* C13: for an issue whose watcher count is 0, or that carries no watcher
\* information, getIssueWatchers is never called and no addWatcher is issued;
\* the watcher list is fetched, once, only for an issue with a positive count
\* whose work item was written and indexed, and every such issue that gets
\* to the watcher step has it fetched.
C13_WatchersOnlyForPositiveCount ==
    calls # <<>> =>
        LET watches == LoggedIssue.fields.watches
            positive == watches.defined /\ watches.watchCount > 0
        IN  /\ ~positive =>
                  /\ CallsOf("getIssueWatchers") = {}
                  /\ CallsOf("addWatcher") = {}
            /\ Cardinality(CallsOf("getIssueWatchers")) <= 1
            /\ CallsOf("getIssueWatchers") # {} =>
                  /\ positive
                  /\ workPackage # 0
                  /\ LoggedIssue.key \in DOMAIN issueToWorkPackageMap
            /\ \A i \in CallsOf("addWatcher") :
                  \E j \in CallsOf("getIssueWatchers") : j < i /\ ~Failed(j)
            /\ (positive /\ pc \in {"watcher", "grantWatcher", "retryWatcher", "done"})
                  => CallsOf("getIssueWatchers") # {}

\* An issue with a watcher count of 0 went through the watcher step after
\* its work item was written.
C13_Witness ==
    /\ pc = "done"
    /\ issue.fields.watches.defined
    /\ issue.fields.watches.watchCount = 0
    /\ workPackage # 0
    /\ CallsOf("getExistingComments") # {}
    /\ CallsOf("getIssueWatchers") = {}

\* The envelope e holds a PropertyConstraintViolation on one of attributes,
\* among its single errors at any depth.
HasViolationOn(e, attributes) ==
    \E k \in 1..LeafCount(e) :
        /\ LeafAt(e, k).errorIdentifier = PropertyConstraintViolation
        /\ LeafAt(e, k).details \in attributes

\* C14: when the first createWorkPackage of an issue (resp. the first
\* addWatcher of a watcher) fails, remediation starts exactly when the
\* failure holds a PropertyConstraintViolation on assignee or responsible
\* (resp. user), other errors beside it or not; otherwise no membership is
\* granted, the operation is not invoked again, the failure caught reaches
\* the per-issue handler as it is and the issue is counted as an error.
C14_NonRemediableRethrown ==
    [][ ( /\ pc \in {"create", "watcher"}
          /\ Len(calls') = Len(calls) + 1
          /\ calls'[Len(calls')][3] = "fail" )
        => LET attributes == IF pc = "create" THEN {"assignee", "responsible"}
                             ELSE {"user"}
               grant == IF pc = "create" THEN "grantCreate" ELSE "grantWatcher"
           IN  /\ HasViolationOn(caught', attributes) <=> pc' = grant
               /\ ~HasViolationOn(caught', attributes) =>
                     /\ pc' = "loop"
                     /\ idx' = idx + 1
                     /\ errors' = errors + 1
                     /\ processed' = processed
                     /\ thrown' = caught'
      ]_vars

\* The attributes whose violation makes a failure of op remediable.
RemediableAttributes(op) ==
    IF op = "createWorkPackage" THEN {"assignee", "responsible"} ELSE {"user"}

\* The failed createWorkPackage or addWatcher call a grant at position i of
\* the call log answers: only grants lie between the two.
Answers(i, j) ==
    /\ j < i
    /\ calls[j][1] \in {"createWorkPackage", "addWatcher"}
    /\ Failed(j)
    /\ \A m \in (j + 1)..i : calls[m][1] = "addUserToProject"

\* C15: every addUserToProject call follows, within the same issue, a failed
\* createWorkPackage or addWatcher whose classified errors were remediable,
\* with nothing but grants in between; a failed grant ends the issue; once
\* the grants are made the next call is the same operation with the same
\* argument, and that operation is not invoked another time afterwards.
C15_GrantsAnswerARejection ==
    /\ pc \in {"grantCreate", "retryCreate"} =>
          HasViolationOn(caught, {"assignee", "responsible"})
    /\ pc \in {"grantWatcher", "retryWatcher"} => HasViolationOn(caught, {"user"})
    /\ \A i \in CallsOf("addUserToProject") :
          \E j \in 1..(i - 1) :
              /\ Answers(i, j)
              /\ Failed(i) => (i = Len(calls) /\ ~InLoopBody)
              /\ i = Len(calls) =>
                    /\ HasViolationOn(caught, RemediableAttributes(calls[j][1]))
                    /\ (InLoopBody /\ calls[j][1] = "createWorkPackage") =>
                          pc = (IF ids = <<>> THEN "retryCreate" ELSE "grantCreate")
                    /\ (InLoopBody /\ calls[j][1] = "addWatcher") => pc = "retryWatcher"
              /\ (i < Len(calls) /\ calls[i + 1][1] # "addUserToProject") =>
                    /\ calls[i + 1][1] = calls[j][1]
                    /\ calls[i + 1][2] = calls[j][2]
                    /\ \A m \in (i + 2)..Len(calls) :
                          ~(calls[m][1] = calls[j][1] /\ calls[m][2] = calls[j][2])

\* A creation was rejected on assignee and responsible, two grants were
\* made, the second createWorkPackage succeeded, and later a watcher was
\* granted membership and added at the second attempt.
C15_Witness ==
    /\ pc = "done"
    /\ Len(CallSeq("createWorkPackage")) = 2
    /\ Len(CallSeq("addUserToProject")) = 3
    /\ Len(CallSeq("addWatcher")) = 2
    /\ ~Failed(Len(calls))

\* C16: for an issue whose work item was found (and that skip mode did not
\* skip) updateWorkPackage is invoked exactly once, on the item found, and
\* createWorkPackage never; when the update fails, whatever the envelope, it
\* is the last call of the issue: no membership is granted, no second
\* update is made, and the failure reaches the per-issue handler.  Only an
\* issue with no work item found is created.
C16_UpdateNeverRemediated ==
    calls # <<>> =>
        /\ existingWorkPackage = 0 => CallsOf("updateWorkPackage") = {}
        /\ existingWorkPackage # 0 =>
              /\ CallsOf("createWorkPackage") = {}
              /\ Cardinality(CallsOf("updateWorkPackage")) <= 1
              /\ \A i \in CallsOf("updateWorkPackage") :
                    /\ calls[i][2] = existingWorkPackage
                    /\ Failed(i) =>
                          /\ i = Len(calls)
                          /\ ~InLoopBody
                          /\ thrown # NoError
                          /\ workPackage = 0
              /\ pc \in {"record", "attachments", "attachment", "upload", "comments",
                         "comment", "watchers", "watcher", "grantWatcher",
                         "retryWatcher", "done"} =>
                    \E i \in CallsOf("updateWorkPackage") : ~Failed(i)
              /\ \A i \in CallsOf("addUserToProject") :
                    \E j \in 1..(i - 1) : Answers(i, j) /\ calls[j][1] = "addWatcher"

\* The update of an existing work item was rejected with a
\* PropertyConstraintViolation on assignee, and the issue ended there.
C16_Witness ==
    /\ pc = "loop"
    /\ existingWorkPackage # 0
    /\ calls # <<>>
    /\ calls[Len(calls)][1] = "updateWorkPackage"
    /\ Failed(Len(calls))
    /\ thrown = SingleError(PropertyConstraintViolation, "assignee")

\* The arguments of the logged calls of op, in order.
ArgSeq(op) == [i \in 1..Len(CallSeq(op)) |-> CallSeq(op)[i][2]]
IsPrefix(s, t) == Len(s) <= Len(t) /\ \A i \in 1..Len(s) : s[i] = t[i]

\* C17: the attachment list of the work item is fetched once for an issue
\* with at least one source attachment and never for one without; the
\* downloads of the issue are, in source order, the source attachments whose
\* filename is not in the fetched list, each followed by its upload; a
\* filename of the fetched list causes no download and no upload, and the
\* attachments after it are dealt with all the same.
C17_AttachmentSync ==
    calls # <<>> =>
        LET source == LoggedIssue.fields.attachment
            fetches == CallsOf("getExistingAttachments")
            notFetched(name) == name \notin existingAttachmentNames
            missing == SelectSeq(source, notFetched)
            downloads == ArgSeq("downloadAttachment")
            uploads == ArgSeq("uploadAttachment")
            pastAttachments == pc \in {"comments", "comment", "watchers", "watcher",
                                       "grantWatcher", "retryWatcher", "done"}
        IN  /\ Cardinality(fetches) <= 1
            /\ source = <<>> => fetches = {}
            /\ \A i \in fetches : calls[i][2] = workPackage
            /\ (fetches = {} \/ \E i \in fetches : Failed(i)) =>
                  (downloads = <<>> /\ uploads = <<>>)
            /\ (\E i \in fetches : ~Failed(i)) =>
                  existingAttachmentNames \cup Range(uploads)
                      = Range(wps[workPackage].attachments)
                        \cup {calls[i][2] : i \in {j \in CallsOf("uploadAttachment") :
                                                      Failed(j)}}
            /\ IsPrefix(downloads, missing)
            /\ IsPrefix(uploads, downloads)
            /\ Len(downloads) <= Len(uploads) + 1
            /\ \A i \in CallsOf("downloadAttachment") \cup CallsOf("uploadAttachment") :
                  Failed(i) => (i = Len(calls) /\ ~InLoopBody)
            /\ pastAttachments =>
                  /\ source # <<>> => fetches # {}
                  /\ downloads = missing
                  /\ uploads = missing

\* The work item held spec.pdf when its attachments were listed: of the
\* three source attachments the first was left alone and the two after it
\* were downloaded and uploaded.
C17_Witness ==
    /\ pc = "comments"
    /\ Len(issue.fields.attachment) = 3
    /\ existingAttachmentNames = {issue.fields.attachment[1]}
    /\ ArgSeq("downloadAttachment") = SubSeq(issue.fields.attachment, 2, 3)
    /\ ArgSeq("uploadAttachment") = SubSeq(issue.fields.attachment, 2, 3)

\* C18: each issue moves exactly one of processed, skipped and errors, by
\* one, when the loop leaves it, so that the three add up to the number of
\* issues dealt with and, after the loop, to the number of issues fetched;
\* an issue whose work item was created or updated and that failed in a
\* later step is counted in errors and not in processed.
C18_CounterAccounting ==
    /\ [] /\ processed + skipped + errors = idx - 1
          /\ pc \in {"cleanup", "returned"} =>
                processed + skipped + errors = Len(jiraIssues)
    /\ [][ /\ idx' = idx =>
                (processed' = processed /\ skipped' = skipped /\ errors' = errors)
           /\ idx' # idx =>
                /\ idx' = idx + 1
                /\ \/ /\ processed' = processed + 1
                      /\ skipped' = skipped /\ errors' = errors
                      /\ pc = "done"
                   \/ /\ skipped' = skipped + 1
                      /\ processed' = processed /\ errors' = errors
                      /\ pc = "lookup"
                   \/ /\ errors' = errors + 1
                      /\ processed' = processed /\ skipped' = skipped
                      /\ thrown' # NoError
         ]_vars

\* Of two issues the first was skipped; the work item of the second was
\* created, a later step of it failed, and the run returned.
C18_Witness ==
    /\ pc = "returned"
    /\ Len(jiraIssues) = 2
    /\ skipped = 1
    /\ errors = 1
    /\ workPackage # 0
    /\ thrown # NoError
    /\ CallsOf("createWorkPackage") # {}

\* The calls that write work items, attachments, comments or watchers on
\* the target, and those that write anything on it.
ItemWrites ==
    {"createWorkPackage", "updateWorkPackage", "uploadAttachment", "addComment",
     "addWatcher"}
TargetWrites == ItemWrites \cup {"addUserToProject"}

\* The issue of the call log failed before its work item was created or
\* updated.
FailedBeforeWrite ==
    /\ ~InLoopBody
    /\ calls # <<>>
    /\ thrown # NoError
    /\ workPackage = 0

\* The index at the end of the run and during it, with writes the calls an
\* issue may not have made when it failed before its work item was written.
IndexState(writes) ==
    /\ pc = "returned" =>
          \A k \in Keys : k \in DOMAIN issueToWorkPackageMap <=> k \in written
    /\ pc \in {"attachments", "attachment", "upload", "comments", "comment", "watchers",
               "watcher", "grantWatcher", "retryWatcher", "done"} =>
          /\ issue.key \in DOMAIN issueToWorkPackageMap
          /\ issueToWorkPackageMap[issue.key] = workPackage
    /\ \A i \in 1..Len(calls) :
          calls[i][1] \in {"getExistingAttachments", "downloadAttachment",
                           "uploadAttachment", "getExistingComments", "addComment",
                           "getIssueWatchers", "addWatcher"}
              => LoggedIssue.key \in DOMAIN issueToWorkPackageMap
    /\ FailedBeforeWrite =>
          \A i \in 1..Len(calls) : calls[i][1] \in writes => Failed(i)

\* An entry is never removed, and an issue that ends in the per-issue
\* handler with no work item written adds none; the work items of the target
\* do not change while the issue at hand has none written.
IndexStep ==
    /\ DOMAIN issueToWorkPackageMap \subseteq DOMAIN issueToWorkPackageMap'
    /\ (InLoopBody /\ errors' = errors + 1 /\ workPackage = 0) =>
          issueToWorkPackageMap' = issueToWorkPackageMap
    /\ (InLoopBody /\ workPackage = 0 /\ workPackage' = 0) => wps' = wps
    /\ (InLoopBody /\ errors' = errors + 1 /\ workPackage # 0) =>
          /\ jiraIssues[idx].key \in DOMAIN issueToWorkPackageMap'
          /\ issueToWorkPackageMap'[jiraIssues[idx].key] = workPackage

\* C19: at the end of a run the index has an entry for k exactly when the
\* run found a work item for k in the skip-mode cache or created or updated
\* one; the entry is written before any attachment, comment or watcher step
\* and never removed, so it survives a later failure of the issue; an issue
\* that failed before its create or update succeeded adds no entry and made
\* no successful write of any kind on the target.
C19_PartialProgress ==
    /\ []IndexState(TargetWrites)
    /\ [][IndexStep]_vars

\* C19 as amended: the same, but the issue that failed before its create
\* succeeded made no successful write of a work item, attachment, comment or
\* watcher; it may have granted project memberships, each grant answering
\* its rejected createWorkPackage.
C19_PartialProgressButGrants ==
    /\ [] /\ IndexState(ItemWrites)
          /\ FailedBeforeWrite =>
                \A i \in CallsOf("addUserToProject") :
                    \E j \in 1..(i - 1) :
                        Answers(i, j) /\ calls[j][1] = "createWorkPackage"
    /\ [][IndexStep]_vars

\* Of two issues with different keys the first failed after its work item
\* was recorded and kept its entry; the creation of the second was rejected,
\* a membership was granted, the second createWorkPackage failed, and the
\* run returned.
C19_Witness ==
    /\ pc = "returned"
    /\ Len(jiraIssues) = 2
    /\ jiraIssues[1].key # jiraIssues[2].key
    /\ errors = 2
    /\ DOMAIN issueToWorkPackageMap = {jiraIssues[1].key}
    /\ FailedBeforeWrite
    /\ \E i \in CallsOf("addUserToProject") : ~Failed(i)

====
